---- MODULE Spec2Model ----
(***************************************************************************)
(* Model of the stateful mock engine of openai-responses-python:           *)
(* ThreadsMock, MessagesMock and RunsMock of endpoints/threads.py, driven  *)
(* handler by handler over one shared StateStore, and the event stream of  *)
(* examples/test_streaming_async.py.                                       *)
(*                                                                         *)
(* Python values are modelled as follows.  None is the string "null" for   *)
(* string-valued fields and 0 for timestamps.  A dict with optional keys   *)
(* (a request body, a PartialRun) is a function whose DOMAIN is the set of *)
(* keys that are present.  A tool parameter (a dict) is the name of its    *)
(* type; a parsed tool (a pydantic object) is the record [type |-> name].  *)
(***************************************************************************)
EXTENDS Integers, Sequences, FiniteSets, TLC

VARIABLES
    threads,      \* state_store.beta.threads          : sequence of threads
    messages,     \* state_store.beta.threads.messages : sequence of messages
    runs,         \* state_store.beta.threads.runs     : sequence of runs
    assistants,   \* state_store.beta.assistants       : sequence of assistants
    nextId,       \* the id generator, per kind of entity
    call_count,   \* respx route.call_count, per route
    cfg,          \* the keyword arguments given to the mocks
    resp,         \* the last HTTP exchange: the request and the response to it
    stream,       \* the CreateRunEventStream in flight, if any
    lookup,       \* one application of RunsMock._next_partial_run to given arguments
    calls,        \* the run-create calls made by overlapping callers, in order of arrival
    private,      \* per mock: whether it was given the threads mock's store, and its own store if not
    request       \* the HTTP request the client makes to the threads mock

vars == <<threads, messages, runs, assistants, nextId, call_count, cfg, resp, stream, lookup, calls, private, request>>

store == <<threads, messages, runs, assistants>>

(***************************************************************************)
(* Bounds of the model.                                                    *)
(***************************************************************************)
MaxCalls == 3        \* HTTP calls made in one behaviour
MaxFailures == 1     \* largest `failures` argument given to a mock
MaxSeqLen == 2       \* longest scripted list given to _next_partial_run on its own
MaxMessages == 5     \* messages created before a paginated listing

NULL == "null"

Mocks == {"threads", "messages", "runs"}

Routes == {"threads.create", "threads.retrieve", "threads.update", "threads.delete",
           "messages.create", "messages.list", "messages.retrieve", "messages.update",
           "runs.create", "runs.list", "runs.retrieve"}

MockOf(route) ==
    CASE route \in {"threads.create", "threads.retrieve", "threads.update", "threads.delete"}
           -> "threads"
      [] route \in {"messages.create", "messages.list", "messages.retrieve", "messages.update"}
           -> "messages"
      [] OTHER -> "runs"

(***************************************************************************)
(* Python dict access.                                                     *)
(***************************************************************************)
EmptyDict == [k \in {} |-> NULL]

DictGet(d, key, default) == IF key \in DOMAIN d THEN d[key] ELSE default

(***************************************************************************)
(* The state store: put is an upsert by id that keeps the position of an   *)
(* existing entry, get returns the entry or nothing, delete reports        *)
(* whether the id was present.                                             *)
(***************************************************************************)
Ids(coll) == {coll[i].id : i \in DOMAIN coll}

Has(coll, id) == id \in Ids(coll)

Get(coll, id) == coll[CHOOSE i \in DOMAIN coll : coll[i].id = id]

Put(coll, e) ==
    IF Has(coll, e.id)
    THEN [i \in DOMAIN coll |-> IF coll[i].id = e.id THEN e ELSE coll[i]]
    ELSE Append(coll, e)

RECURSIVE Remove(_, _)
Remove(coll, id) ==
    IF coll = <<>> THEN <<>>
    ELSE IF Head(coll).id = id THEN Remove(Tail(coll), id)
    ELSE <<Head(coll)>> \o Remove(Tail(coll), id)

Delete(coll, id) == [deleted |-> Has(coll, id), coll |-> Remove(coll, id)]

\* "for message in messages: state_store.beta.threads.messages.put(message)"
RECURSIVE PutAll(_, _)
PutAll(coll, es) ==
    IF es = <<>> THEN coll ELSE PutAll(Put(coll, Head(es)), Tail(es))

(***************************************************************************)
(* Conversions between dicts and pydantic objects.  model_parse gives None *)
(* for a missing value and the object of the given type otherwise; a tool  *)
(* parameter is parsed to the tool object of its type and model_dict dumps *)
(* it back.                                                                *)
(***************************************************************************)
\* Python truthiness of a list or dict, or of None (<<>>).
Truthy(v) == v # <<>>

ModelParse(kind, v) == IF v = <<>> THEN <<>> ELSE <<kind>> \o v

ParseToolParams(params) == [i \in DOMAIN params |-> [type |-> params[i]]]

ModelDictTools(tools) == [i \in DOMAIN tools |-> tools[i].type]

OrEmptyString(s) == IF s = NULL THEN "" ELSE s

(***************************************************************************)
(* RunsMock._next_partial_run.  A Python list index below zero counts from *)
(* the end of the list; IndexError is raised only outside -len .. len-1.   *)
(* The result is <<>> for None and <<entry>> for an entry.                 *)
(***************************************************************************)
\* _next_partial_run indexing with the number of calls including this one.
NextPartialRunCountsThisCall(sequence, count, failures, method) ==
    LET used_sequence == DictGet(sequence, method, <<>>)
        net_ix == count + 1 - failures
        n == Len(used_sequence)
    IN  IF 0 <= net_ix /\ net_ix < n THEN <<used_sequence[net_ix + 1]>>
        ELSE IF net_ix < 0 /\ 0 - n <= net_ix THEN <<used_sequence[n + net_ix + 1]>>
        ELSE <<>>

NextPartialRun(sequence, count, failures, method) ==
    LET used_sequence == DictGet(sequence, method, <<>>)
        net_ix == count - failures
        n == Len(used_sequence)
    IN  IF 0 <= net_ix /\ net_ix < n THEN <<used_sequence[net_ix + 1]>>
        ELSE IF net_ix < 0 /\ 0 - n <= net_ix THEN <<used_sequence[n + net_ix + 1]>>
        ELSE <<>>

\* "<entry or None> or {}"
OrEmptyDict(opt) == IF opt = <<>> THEN EmptyDict ELSE opt[1]

(***************************************************************************)
(* RunsMock._merge_partial_run_with_assistant.                             *)
(***************************************************************************)
\* _merge_partial_run_with_assistant taking nothing from the assistant.
MergeWithoutAssistant(run, asst) == run

MergePartialRunWithAssistant(run, asst) ==
    IF DOMAIN run = {}
    THEN [file_ids     |-> asst.file_ids,
          instructions |-> OrEmptyString(asst.instructions),
          model        |-> asst.model,
          tools        |-> ModelDictTools(asst.tools)]
    ELSE [file_ids     |-> DictGet(run, "file_ids", asst.file_ids),
          instructions |-> DictGet(run, "instructions", OrEmptyString(asst.instructions)),
          model        |-> DictGet(run, "model", asst.model),
          tools        |-> DictGet(run, "tools", ModelDictTools(asst.tools))]

(***************************************************************************)
(* The Run built by RunsMock._create from the request and the partial run. *)
(***************************************************************************)
NewRun(id, thread_id, content, partial_run) ==
    [id              |-> id,
     thread_id       |-> thread_id,
     assistant_id    |-> content.assistant_id,
     status          |-> DictGet(partial_run, "status", "queued"),
     required_action |-> ModelParse("RequiredAction", DictGet(partial_run, "required_action", <<>>)),
     last_error      |-> ModelParse("LastError", DictGet(partial_run, "last_error", <<>>)),
     expires_at      |-> DictGet(partial_run, "expires_at", 0),
     started_at      |-> DictGet(partial_run, "started_at", 0),
     cancelled_at    |-> DictGet(partial_run, "cancelled_at", 0),
     failed_at       |-> DictGet(partial_run, "failed_at", 0),
     completed_at    |-> DictGet(partial_run, "completed_at", 0),
     model           |-> DictGet(partial_run, "model", "gpt-3.5-turbo"),
     instructions    |-> DictGet(partial_run, "instructions", ""),
     tools           |-> ParseToolParams(DictGet(partial_run, "tools", <<>>)),
     file_ids        |-> DictGet(partial_run, "file_ids", <<>>),
     metadata        |-> DictGet(content, "metadata", NULL)]

(***************************************************************************)
(* The assignments of RunsMock._retrieve to the stored run.                *)
(***************************************************************************)
ApplyPartialRun(run, partial_run) ==
    [run EXCEPT
       !.status          = DictGet(partial_run, "status", run.status),
       !.expires_at      = DictGet(partial_run, "expires_at", run.expires_at),
       !.started_at      = DictGet(partial_run, "started_at", run.started_at),
       !.cancelled_at    = DictGet(partial_run, "cancelled_at", run.cancelled_at),
       !.failed_at       = DictGet(partial_run, "failed_at", run.failed_at),
       !.completed_at    = DictGet(partial_run, "completed_at", run.completed_at),
       !.model           = DictGet(partial_run, "model", run.model),
       !.instructions    = DictGet(partial_run, "instructions", run.instructions),
       !.file_ids        = DictGet(partial_run, "file_ids", run.file_ids),
       !.required_action = IF Truthy(DictGet(partial_run, "required_action", <<>>))
                           THEN ModelParse("RequiredAction", partial_run.required_action)
                           ELSE run.required_action,
       !.last_error      = IF Truthy(DictGet(partial_run, "last_error", <<>>))
                           THEN ModelParse("LastError", partial_run.last_error)
                           ELSE run.last_error,
       !.tools           = IF Truthy(DictGet(partial_run, "tools", <<>>))
                           THEN ParseToolParams(partial_run.tools)
                           ELSE run.tools]

(***************************************************************************)
(* The clock (utcnow_unix_timestamp_s) and the id generator: every new     *)
(* entity takes the next id of its kind.                                   *)
(***************************************************************************)
Now == nextId.thread + nextId.message + nextId.run

(***************************************************************************)
(* MessagesMock._parse_message_create_params.                              *)
(***************************************************************************)
\* _parse_message_create_params giving every message the same id.
ParseMessageCreateParamsSameId(id, thread_id, create_message) ==
    [id           |-> 1,
     created_at   |-> Now,
     thread_id    |-> thread_id,
     role         |-> create_message.role,
     status       |-> "completed",
     content      |-> <<[type |-> "text", value |-> create_message.content]>>,
     file_ids     |-> DictGet(create_message, "file_ids", <<>>),
     assistant_id |-> 0,
     run_id       |-> 0,
     metadata     |-> NULL]

ParseMessageCreateParams(id, thread_id, create_message) ==
    [id           |-> id,
     created_at   |-> Now,
     thread_id    |-> thread_id,
     role         |-> create_message.role,
     status       |-> "completed",
     content      |-> <<[type |-> "text", value |-> create_message.content]>>,
     file_ids     |-> DictGet(create_message, "file_ids", <<>>),
     assistant_id |-> 0,
     run_id       |-> 0,
     metadata     |-> NULL]

(***************************************************************************)
(* StateStore list: the entities of one thread in creation order (asc) or  *)
(* reversed (desc, the default), cut to those strictly after / before a    *)
(* cursor id, then to the first limit entries (20 by default, 1..100).     *)
(***************************************************************************)
DefaultLimit == 20
MinLimit == 1
MaxLimit == 100

RECURSIVE OfThread(_, _)
OfThread(coll, thread_id) ==
    IF coll = <<>> THEN <<>>
    ELSE IF Head(coll).thread_id = thread_id
         THEN <<Head(coll)>> \o OfThread(Tail(coll), thread_id)
         ELSE OfThread(Tail(coll), thread_id)

Reverse(s) == [i \in 1..Len(s) |-> s[Len(s) + 1 - i]]

IndexOf(s, id) == IF Has(s, id) THEN CHOOSE i \in DOMAIN s : s[i].id = id ELSE 0

ClampLimit(limit) ==
    IF limit = 0 THEN DefaultLimit
    ELSE IF limit < MinLimit THEN MinLimit
    ELSE IF limit > MaxLimit THEN MaxLimit
    ELSE limit

StoreList(coll, thread_id, q) ==
    LET own     == OfThread(coll, thread_id)
        ordered == IF q.order = "asc" THEN own ELSE Reverse(own)
        lo      == IF q.after = 0 THEN 1
                   ELSE IF Has(ordered, q.after) THEN IndexOf(ordered, q.after) + 1
                   ELSE Len(ordered) + 1
        hi      == IF q.before = 0 THEN Len(ordered)
                   ELSE IF Has(ordered, q.before) THEN IndexOf(ordered, q.before) - 1
                   ELSE 0
        cut     == IF lo <= hi THEN SubSeq(ordered, lo, hi) ELSE <<>>
        n       == ClampLimit(q.limit)
    IN  IF Len(cut) <= n THEN cut ELSE SubSeq(cut, 1, n)

NoQuery == [limit |-> 0, order |-> NULL, after |-> 0, before |-> 0]

(***************************************************************************)
(* Requests.                                                               *)
(***************************************************************************)
\* Every id generated so far, and 0, which is never generated.
PathThreadIds == 0..(nextId.thread - 1)
PathMessageIds == 0..(nextId.message - 1)
PathRunIds == 0..(nextId.run - 1)

UserMessage == [role |-> "user", content |-> "Hello!"]

ThreadCreateBodies ==
    {EmptyDict, [metadata |-> "m1"], [messages |-> <<UserMessage>>],
     [messages |-> <<UserMessage, [role |-> "user", content |-> "Hi"]>>]}

UpdateBodies == {EmptyDict, [metadata |-> "m2"], [metadata |-> NULL]}

MessageCreateBodies == {UserMessage, [role |-> "user", content |-> "Hi", file_ids |-> <<"f1">>]}

Queries == {NoQuery}

TotalCalls ==
    call_count["threads.create"] + call_count["threads.retrieve"] + call_count["threads.update"]
    + call_count["threads.delete"] + call_count["messages.create"] + call_count["messages.list"]
    + call_count["messages.retrieve"] + call_count["messages.update"] + call_count["runs.create"]
    + call_count["runs.list"] + call_count["runs.retrieve"]

(***************************************************************************)
(* respx records the call after the side effect has produced its response: *)
(* inside a handler route.call_count is the number of earlier calls.       *)
(***************************************************************************)
\* Respond with one call count kept per mock instead of per route.
RespondCountedPerMock(route, path, content, status, body) ==
    /\ resp' = [route |-> route, path |-> path, content |-> content,
                status |-> status, body |-> body]
    /\ call_count' = [r \in Routes |-> IF MockOf(r) = MockOf(route) THEN call_count[r] + 1
                                       ELSE call_count[r]]

Respond(route, path, content, status, body) ==
    /\ resp' = [route |-> route, path |-> path, content |-> content,
                status |-> status, body |-> body]
    /\ call_count' = [call_count EXCEPT ![route] = @ + 1]

(***************************************************************************)
(* @side_effect: the first `failures` calls of the route are answered 500  *)
(* before the handler runs.                                                *)
(***************************************************************************)
Injected(route) == call_count[route] < cfg.failures[MockOf(route)]

Fail(route, path, content) ==
    /\ Respond(route, path, content, 500, <<>>)
    /\ UNCHANGED <<threads, messages, runs, assistants, nextId>>

(***************************************************************************)
(* ThreadsMock.                                                            *)
(***************************************************************************)
\* NewThread with an id generator that gives the same id every time.
NewThreadSameId(id, content) ==
    [id |-> 1, created_at |-> Now, metadata |-> DictGet(content, "metadata", NULL)]

NewThread(id, content) ==
    [id |-> id, created_at |-> Now, metadata |-> DictGet(content, "metadata", NULL)]

\* ThreadsCreate putting the initial messages last first.
ThreadsCreateLastFirst(content) ==
    LET params == DictGet(content, "messages", <<>>)
        thread == NewThread(nextId.thread, content)
        new    == [i \in DOMAIN params |->
                     ParseMessageCreateParams(nextId.message + i - 1, thread.id, params[i])]
    IN  /\ IF Injected("threads.create")
           THEN Fail("threads.create", <<>>, content)
           ELSE /\ threads' = Put(threads, thread)
                /\ messages' = PutAll(messages, Reverse(new))
                /\ nextId' = [nextId EXCEPT !.thread = @ + 1, !.message = @ + Len(params)]
                /\ Respond("threads.create", <<>>, content, 201, <<thread>>)
                /\ UNCHANGED <<runs, assistants>>
        /\ UNCHANGED <<cfg, stream, lookup, calls, private, request>>

ThreadsCreate(content) ==
    LET params == DictGet(content, "messages", <<>>)
        thread == NewThread(nextId.thread, content)
        new    == [i \in DOMAIN params |->
                     ParseMessageCreateParams(nextId.message + i - 1, thread.id, params[i])]
    IN  /\ IF Injected("threads.create")
           THEN Fail("threads.create", <<>>, content)
           ELSE /\ threads' = Put(threads, thread)
                /\ messages' = PutAll(messages, new)
                /\ nextId' = [nextId EXCEPT !.thread = @ + 1, !.message = @ + Len(params)]
                /\ Respond("threads.create", <<>>, content, 201, <<thread>>)
                /\ UNCHANGED <<runs, assistants>>
        /\ UNCHANGED <<cfg, stream, lookup, calls, private, request>>

ThreadsRetrieve(id) ==
    /\ IF Injected("threads.retrieve")
       THEN Fail("threads.retrieve", <<id>>, EmptyDict)
       ELSE /\ IF ~Has(threads, id)
               THEN Respond("threads.retrieve", <<id>>, EmptyDict, 404, <<>>)
               ELSE Respond("threads.retrieve", <<id>>, EmptyDict, 200, <<Get(threads, id)>>)
            /\ UNCHANGED <<threads, messages, runs, assistants, nextId>>
    /\ UNCHANGED <<cfg, stream, lookup, calls, private, request>>

\* ThreadsUpdate with the put moved before the existence check.
ThreadsUpdatePutFirst(id, content) ==
    /\ IF Injected("threads.update")
       THEN Fail("threads.update", <<id>>, content)
       ELSE LET old    == IF Has(threads, id) THEN Get(threads, id)
                          ELSE [id |-> id, created_at |-> Now, metadata |-> NULL]
                thread == [old EXCEPT !.metadata = DictGet(content, "metadata", old.metadata)]
            IN  /\ threads' = Put(threads, thread)
                /\ IF Has(threads, id)
                   THEN Respond("threads.update", <<id>>, content, 200, <<thread>>)
                   ELSE Respond("threads.update", <<id>>, content, 404, <<>>)
                /\ UNCHANGED <<messages, runs, assistants, nextId>>
    /\ UNCHANGED <<cfg, stream, lookup, calls, private, request>>

ThreadsUpdate(id, content) ==
    /\ IF Injected("threads.update")
       THEN Fail("threads.update", <<id>>, content)
       ELSE IF ~Has(threads, id)
       THEN /\ Respond("threads.update", <<id>>, content, 404, <<>>)
            /\ UNCHANGED <<threads, messages, runs, assistants, nextId>>
       ELSE LET old    == Get(threads, id)
                thread == [old EXCEPT !.metadata = DictGet(content, "metadata", old.metadata)]
            IN  /\ threads' = Put(threads, thread)
                /\ Respond("threads.update", <<id>>, content, 200, <<thread>>)
                /\ UNCHANGED <<messages, runs, assistants, nextId>>
    /\ UNCHANGED <<cfg, stream, lookup, calls, private, request>>

\* ThreadsDelete answering 404 for an id that is not in the store.
ThreadsDeleteStrict(id) ==
    /\ IF Injected("threads.delete")
       THEN Fail("threads.delete", <<id>>, EmptyDict)
       ELSE LET d == Delete(threads, id)
            IN  /\ threads' = d.coll
                /\ IF d.deleted
                   THEN Respond("threads.delete", <<id>>, EmptyDict, 200,
                                <<[id |-> id, deleted |-> TRUE]>>)
                   ELSE Respond("threads.delete", <<id>>, EmptyDict, 404, <<>>)
                /\ UNCHANGED <<messages, runs, assistants, nextId>>
    /\ UNCHANGED <<cfg, stream, lookup, calls, private, request>>

ThreadsDelete(id) ==
    /\ IF Injected("threads.delete")
       THEN Fail("threads.delete", <<id>>, EmptyDict)
       ELSE LET d == Delete(threads, id)
            IN  /\ threads' = d.coll
                /\ Respond("threads.delete", <<id>>, EmptyDict, 200, <<[id |-> id, deleted |-> d.deleted]>>)
                /\ UNCHANGED <<messages, runs, assistants, nextId>>
    /\ UNCHANGED <<cfg, stream, lookup, calls, private, request>>

(***************************************************************************)
(* MessagesMock.                                                           *)
(***************************************************************************)
\* ThreadMissing with the validation never applied.
ThreadMissingNever(mock, thread_id) == FALSE

\* ThreadMissing with the validation applied whatever the configuration.
ThreadMissingAlways(mock, thread_id) == ~Has(threads, thread_id)

\* "if validate_thread_exists: ... if not thread: return 404"
ThreadMissing(mock, thread_id) ==
    cfg.validate_thread_exists[mock] /\ ~Has(threads, thread_id)

MessagesCreate(thread_id, content) ==
    /\ IF Injected("messages.create")
       THEN Fail("messages.create", <<thread_id>>, content)
       ELSE IF ThreadMissing("messages", thread_id)
       THEN /\ Respond("messages.create", <<thread_id>>, content, 404, <<>>)
            /\ UNCHANGED <<threads, messages, runs, assistants, nextId>>
       ELSE LET message == ParseMessageCreateParams(nextId.message, thread_id, content)
            IN  /\ messages' = Put(messages, message)
                /\ nextId' = [nextId EXCEPT !.message = @ + 1]
                /\ Respond("messages.create", <<thread_id>>, content, 201, <<message>>)
                /\ UNCHANGED <<threads, runs, assistants>>
    /\ UNCHANGED <<cfg, stream, lookup, calls, private, request>>

\* MessagesList without the order parameter handed to the store.
MessagesListNoOrder(thread_id, q) ==
    /\ IF Injected("messages.list")
       THEN Fail("messages.list", <<thread_id>>, q)
       ELSE /\ IF ThreadMissing("messages", thread_id)
               THEN Respond("messages.list", <<thread_id>>, q, 404, <<>>)
               ELSE Respond("messages.list", <<thread_id>>, q, 200,
                            StoreList(messages, thread_id, [q EXCEPT !.order = NULL]))
            /\ UNCHANGED <<threads, messages, runs, assistants, nextId>>
    /\ UNCHANGED <<cfg, stream, lookup, calls, private, request>>

MessagesList(thread_id, q) ==
    /\ IF Injected("messages.list")
       THEN Fail("messages.list", <<thread_id>>, q)
       ELSE /\ IF ThreadMissing("messages", thread_id)
               THEN Respond("messages.list", <<thread_id>>, q, 404, <<>>)
               ELSE Respond("messages.list", <<thread_id>>, q, 200, StoreList(messages, thread_id, q))
            /\ UNCHANGED <<threads, messages, runs, assistants, nextId>>
    /\ UNCHANGED <<cfg, stream, lookup, calls, private, request>>

MessagesRetrieve(thread_id, id) ==
    /\ IF Injected("messages.retrieve")
       THEN Fail("messages.retrieve", <<thread_id, id>>, EmptyDict)
       ELSE /\ IF ThreadMissing("messages", thread_id)
               THEN Respond("messages.retrieve", <<thread_id, id>>, EmptyDict, 404, <<>>)
               ELSE IF ~Has(messages, id)
               THEN Respond("messages.retrieve", <<thread_id, id>>, EmptyDict, 404, <<>>)
               ELSE Respond("messages.retrieve", <<thread_id, id>>, EmptyDict, 200, <<Get(messages, id)>>)
            /\ UNCHANGED <<threads, messages, runs, assistants, nextId>>
    /\ UNCHANGED <<cfg, stream, lookup, calls, private, request>>

\* MessagesUpdate stamping the message with the time of the update.
MessagesUpdateRestamped(thread_id, id, content) ==
    /\ IF Injected("messages.update")
       THEN Fail("messages.update", <<thread_id, id>>, content)
       ELSE IF ThreadMissing("messages", thread_id) \/ ~Has(messages, id)
       THEN /\ Respond("messages.update", <<thread_id, id>>, content, 404, <<>>)
            /\ UNCHANGED <<threads, messages, runs, assistants, nextId>>
       ELSE LET old     == Get(messages, id)
                message == [old EXCEPT !.metadata = DictGet(content, "metadata", old.metadata),
                                       !.created_at = Now + 1]
            IN  /\ messages' = Put(messages, message)
                /\ Respond("messages.update", <<thread_id, id>>, content, 200, <<message>>)
                /\ UNCHANGED <<threads, runs, assistants, nextId>>
    /\ UNCHANGED <<cfg, stream, lookup, calls, private, request>>

MessagesUpdate(thread_id, id, content) ==
    /\ IF Injected("messages.update")
       THEN Fail("messages.update", <<thread_id, id>>, content)
       ELSE IF ThreadMissing("messages", thread_id) \/ ~Has(messages, id)
       THEN /\ Respond("messages.update", <<thread_id, id>>, content, 404, <<>>)
            /\ UNCHANGED <<threads, messages, runs, assistants, nextId>>
       ELSE LET old     == Get(messages, id)
                message == [old EXCEPT !.metadata = DictGet(content, "metadata", old.metadata)]
            IN  /\ messages' = Put(messages, message)
                /\ Respond("messages.update", <<thread_id, id>>, content, 200, <<message>>)
                /\ UNCHANGED <<threads, runs, assistants, nextId>>
    /\ UNCHANGED <<cfg, stream, lookup, calls, private, request>>

(***************************************************************************)
(* RunsMock.  _create is wrapped by @side_effect; _retrieve and _list are  *)
(* not, and read `failures` only to index the scripted sequence.           *)
(***************************************************************************)
RunCreateBodies ==
    {[assistant_id |-> a] : a \in 0..1} \cup {[assistant_id |-> 1, metadata |-> "m1"]}

RunsCreate(thread_id, content) ==
    /\ IF Injected("runs.create")
       THEN Fail("runs.create", <<thread_id>>, content)
       ELSE IF ThreadMissing("runs", thread_id)
       THEN /\ Respond("runs.create", <<thread_id>>, content, 404, <<>>)
            /\ UNCHANGED <<threads, messages, runs, assistants, nextId>>
       ELSE LET scripted == OrEmptyDict(NextPartialRun(cfg.sequence, call_count["runs.create"],
                                                       cfg.failures["runs"], "create"))
            IN  IF cfg.validate_assistant_exists /\ ~Has(assistants, content.assistant_id)
                THEN /\ Respond("runs.create", <<thread_id>>, content, 404, <<>>)
                     /\ UNCHANGED <<threads, messages, runs, assistants, nextId>>
                ELSE LET partial_run ==
                             IF cfg.validate_assistant_exists
                             THEN MergePartialRunWithAssistant(
                                      scripted, Get(assistants, content.assistant_id))
                             ELSE scripted
                         run == NewRun(nextId.run, thread_id, content, partial_run)
                     IN  /\ runs' = Put(runs, run)
                         /\ nextId' = [nextId EXCEPT !.run = @ + 1]
                         /\ Respond("runs.create", <<thread_id>>, content, 201, <<run>>)
                         /\ UNCHANGED <<threads, messages, assistants>>
    /\ UNCHANGED <<cfg, stream, lookup, calls, private, request>>

\* RunsRetrieve answering 404, as _create does, when the assistant is gone.
RunsRetrieveStrict(thread_id, id) ==
    /\ IF \/ ThreadMissing("runs", thread_id)
          \/ ~Has(runs, id)
          \/ (cfg.validate_assistant_exists /\ ~Has(assistants, Get(runs, id).assistant_id))
       THEN /\ Respond("runs.retrieve", <<thread_id, id>>, EmptyDict, 404, <<>>)
            /\ UNCHANGED <<threads, messages, runs, assistants, nextId>>
       ELSE LET old      == Get(runs, id)
                scripted == OrEmptyDict(NextPartialRun(cfg.sequence, call_count["runs.retrieve"],
                                                       cfg.failures["runs"], "retrieve"))
                partial_run ==
                    IF cfg.validate_assistant_exists
                    THEN MergePartialRunWithAssistant(scripted, Get(assistants, old.assistant_id))
                    ELSE scripted
                run == ApplyPartialRun(old, partial_run)
            IN  /\ runs' = Put(runs, run)
                /\ Respond("runs.retrieve", <<thread_id, id>>, EmptyDict, 200, <<run>>)
                /\ UNCHANGED <<threads, messages, assistants, nextId>>
    /\ UNCHANGED <<cfg, stream, lookup, calls, private, request>>

RunsRetrieve(thread_id, id) ==
    /\ IF ThreadMissing("runs", thread_id) \/ ~Has(runs, id)
       THEN /\ Respond("runs.retrieve", <<thread_id, id>>, EmptyDict, 404, <<>>)
            /\ UNCHANGED <<threads, messages, runs, assistants, nextId>>
       ELSE LET old      == Get(runs, id)
                scripted == OrEmptyDict(NextPartialRun(cfg.sequence, call_count["runs.retrieve"],
                                                       cfg.failures["runs"], "retrieve"))
                partial_run ==
                    IF cfg.validate_assistant_exists /\ Has(assistants, old.assistant_id)
                    THEN MergePartialRunWithAssistant(scripted, Get(assistants, old.assistant_id))
                    ELSE scripted
                run == ApplyPartialRun(old, partial_run)
            IN  /\ runs' = Put(runs, run)
                /\ Respond("runs.retrieve", <<thread_id, id>>, EmptyDict, 200, <<run>>)
                /\ UNCHANGED <<threads, messages, assistants, nextId>>
    /\ UNCHANGED <<cfg, stream, lookup, calls, private, request>>

RunsList(thread_id, q) ==
    /\ IF ThreadMissing("runs", thread_id)
       THEN Respond("runs.list", <<thread_id>>, q, 404, <<>>)
       ELSE Respond("runs.list", <<thread_id>>, q, 200, StoreList(runs, thread_id, q))
    /\ UNCHANGED <<threads, messages, runs, assistants, nextId, cfg, stream, lookup, calls, private, request>>

(***************************************************************************)
(* The assistants of the shared store: created and deleted through the     *)
(* assistants mock, and only read by RunsMock.                             *)
(***************************************************************************)
MathTutor ==
    [id |-> 1, model |-> "gpt-4-turbo", instructions |-> "You are a personal math tutor.",
     file_ids |-> <<"f1">>, tools |-> <<[type |-> "code_interpreter"]>>]

Assistants == {MathTutor, [MathTutor EXCEPT !.instructions = NULL]}

AssistantsCreate(asst) ==
    /\ ~Has(assistants, asst.id)
    /\ assistants' = Put(assistants, asst)
    /\ UNCHANGED <<threads, messages, runs, nextId, call_count, cfg, resp, stream, lookup, calls, private, request>>

AssistantsDelete(id) ==
    /\ Has(assistants, id)
    /\ assistants' = Delete(assistants, id).coll
    /\ UNCHANGED <<threads, messages, runs, nextId, call_count, cfg, resp, stream, lookup, calls, private, request>>

(***************************************************************************)
(* The streamed run creation of examples/test_streaming_async.py.          *)
(* create_run_stream_response answers the run-create route with a          *)
(* CreateRunEventStream; agenerate runs from one yield to the next each    *)
(* time the consumer pulls.  stream.pc counts the events yielded so far    *)
(* (5: the generator has returned), stream.data is the payload of the last *)
(* event as it was when yielded.                                           *)
(***************************************************************************)
NoStream == [active |-> FALSE, pc |-> 0, created_run |-> <<>>, emitted |-> <<>>, data |-> <<>>]

StreamExtra == [model |-> "gpt-4-turbo", tools |-> <<"code_interpreter">>]

RunFromCreateRequest(id, thread_id, content, extra) == NewRun(id, thread_id, content, extra)

BuildMessage(id, run) ==
    [id           |-> id,
     created_at   |-> Now,
     thread_id    |-> run.thread_id,
     role         |-> "assistant",
     status       |-> "completed",
     content      |-> <<[type |-> "text", value |-> "Hello! How can I help?"]>>,
     file_ids     |-> <<>>,
     assistant_id |-> run.assistant_id,
     run_id       |-> run.id,
     metadata     |-> NULL]

\* create_run_stream_response putting the run in the store itself.
CreateRunStreamResponseStoring(thread_id, content) ==
    LET created_run == RunFromCreateRequest(nextId.run, thread_id, content, StreamExtra)
    IN  /\ stream' = [active |-> TRUE, pc |-> 0, created_run |-> <<created_run>>,
                      emitted |-> <<>>, data |-> <<>>]
        /\ runs' = Put(runs, created_run)
        /\ nextId' = [nextId EXCEPT !.run = @ + 1]
        /\ Respond("runs.create", <<thread_id>>, content, 201, <<>>)
        /\ UNCHANGED <<threads, messages, assistants, cfg, lookup, calls, private, request>>

CreateRunStreamResponse(thread_id, content) ==
    LET created_run == RunFromCreateRequest(nextId.run, thread_id, content, StreamExtra)
    IN  /\ stream' = [active |-> TRUE, pc |-> 0, created_run |-> <<created_run>>,
                      emitted |-> <<>>, data |-> <<>>]
        /\ nextId' = [nextId EXCEPT !.run = @ + 1]
        /\ Respond("runs.create", <<thread_id>>, content, 201, <<>>)
        /\ UNCHANGED <<threads, messages, runs, assistants, cfg, lookup, calls, private, request>>

\* "self.state_store.beta.threads.runs.put(self.created_run)", left out.
RunNotStored(run) == runs

\* "self.state_store.beta.threads.runs.put(self.created_run)"
StoreRun(run) == Put(runs, run)

\* "self.state_store.beta.threads.messages.put(assistant_message)", left out.
MessageNotStored(message) == messages

\* "self.state_store.beta.threads.messages.put(assistant_message)"
StoreMessage(message) == Put(messages, message)

Yield(event, run, data) ==
    stream' = [stream EXCEPT !.pc = @ + 1, !.created_run = <<run>>,
                             !.emitted = Append(@, event), !.data = <<data>>]

Agenerate ==
    LET run == stream.created_run[1]
    IN  /\ stream.active
        /\ stream.pc < 5
        /\ CASE stream.pc = 0 ->
                  /\ runs' = StoreRun(run)
                  /\ Yield("thread.run.created", run, run)
                  /\ UNCHANGED <<messages, nextId>>
             [] stream.pc = 1 ->
                  LET r == [run EXCEPT !.status = "in_progress"]
                  IN  /\ runs' = StoreRun(r)
                      /\ Yield("thread.run.in_progress", r, r)
                      /\ UNCHANGED <<messages, nextId>>
             [] stream.pc = 2 ->
                  LET assistant_message == BuildMessage(nextId.message, run)
                  IN  /\ messages' = StoreMessage(assistant_message)
                      /\ nextId' = [nextId EXCEPT !.message = @ + 1]
                      /\ Yield("thread.message.created", run, assistant_message)
                      /\ UNCHANGED runs
             [] stream.pc = 3 ->
                  LET r == [run EXCEPT !.status = "completed"]
                  IN  /\ runs' = StoreRun(r)
                      /\ Yield("thread.run.completed", r, r)
                      /\ UNCHANGED <<messages, nextId>>
             [] OTHER ->
                  /\ stream' = [stream EXCEPT !.pc = 5]
                  /\ UNCHANGED <<runs, messages, nextId>>
        /\ UNCHANGED <<threads, assistants, call_count, cfg, resp, lookup, calls, private, request>>

(***************************************************************************)
(* Configurations: the keyword arguments of the three mocks.               *)
(***************************************************************************)
ScriptedRun ==
    [create   |-> <<[status |-> "queued"]>>,
     retrieve |-> <<[status |-> "in_progress"], [status |-> "completed"]>>]

ScriptedAction ==
    [create   |-> <<[status |-> "in_progress", model |-> "gpt-4o", started_at |-> 7]>>,
     retrieve |-> <<[status |-> "requires_action", required_action |-> <<"submit_tool_outputs">>],
                    [expires_at |-> 9, tools |-> <<"retrieval">>]>>]

Sequences == {EmptyDict, ScriptedRun, ScriptedAction}

Configs ==
    [failures                  : [Mocks -> 0..MaxFailures],
     validate_thread_exists    : [{"messages", "runs"} -> BOOLEAN],
     validate_assistant_exists : BOOLEAN,
     sequence                  : Sequences]

NoLookup == [sequence |-> EmptyDict, count |-> 0, failures |-> 0, method |-> "create",
             done |-> FALSE, result |-> <<>>]

\* "state_store or StateStore()": a fresh store holds nothing.
FreshStore == [threads |-> <<>>, messages |-> <<>>, runs |-> <<>>, assistants |-> <<>>]

\* The messages and the runs mock given the store of the threads mock.
SharedStore == [m \in {"messages", "runs"} |-> [shared |-> TRUE, own |-> FreshStore]]

NoRequest == [method |-> "none", url |-> <<>>, content |-> EmptyDict]

InitStore ==
    /\ threads = <<>>
    /\ messages = <<>>
    /\ runs = <<>>
    /\ assistants = <<>>
    /\ nextId = [thread |-> 1, message |-> 1, run |-> 1]
    /\ call_count = [r \in Routes |-> 0]
    /\ resp = [route |-> "none", path |-> <<>>, content |-> EmptyDict, status |-> 0, body |-> <<>>]
    /\ stream = NoStream
    /\ calls = <<>>
    /\ request = NoRequest

Uniform(c) ==
    /\ \A m \in Mocks : c.failures[m] = c.failures["runs"]
    /\ c.validate_thread_exists["messages"] = c.validate_thread_exists["runs"]

(***************************************************************************)
(* Spec: the eleven handlers of the three mocks over one shared store,     *)
(* with the assistants of that store coming and going.                     *)
(***************************************************************************)
Init ==
    /\ InitStore
    /\ cfg \in {c \in Configs : Uniform(c) /\ c.sequence = ScriptedRun}
    /\ lookup = NoLookup
    /\ private = SharedStore

Calls(n) == TotalCalls < n

Next ==
    \/ \E content \in ThreadCreateBodies : Calls(MaxCalls) /\ ThreadsCreate(content)
    \/ \E id \in PathThreadIds : Calls(MaxCalls) /\ ThreadsRetrieve(id)
    \/ \E id \in PathThreadIds, content \in UpdateBodies :
           Calls(MaxCalls) /\ ThreadsUpdate(id, content)
    \/ \E id \in PathThreadIds : Calls(MaxCalls) /\ ThreadsDelete(id)
    \/ \E t \in PathThreadIds, content \in MessageCreateBodies :
           Calls(MaxCalls) /\ MessagesCreate(t, content)
    \/ \E t \in PathThreadIds, q \in Queries : Calls(MaxCalls) /\ MessagesList(t, q)
    \/ \E t \in PathThreadIds, id \in PathMessageIds :
           Calls(MaxCalls) /\ MessagesRetrieve(t, id)
    \/ \E t \in PathThreadIds, id \in PathMessageIds, content \in UpdateBodies :
           Calls(MaxCalls) /\ MessagesUpdate(t, id, content)
    \/ \E t \in PathThreadIds, content \in RunCreateBodies :
           Calls(MaxCalls) /\ RunsCreate(t, content)
    \/ \E t \in PathThreadIds, id \in PathRunIds : Calls(MaxCalls) /\ RunsRetrieve(t, id)
    \/ \E t \in PathThreadIds, q \in Queries : Calls(MaxCalls) /\ RunsList(t, q)
    \/ \E asst \in Assistants : AssistantsCreate(asst)
    \/ \E id \in 0..1 : AssistantsDelete(id)

Spec == Init /\ [][Next]_vars

(***************************************************************************)
(* SpecRuns: the runs mock alone is configured (failures, validations and  *)
(* a scripted sequence); threads and assistants of the shared store are    *)
(* created and deleted around it.                                          *)
(***************************************************************************)
RunsCalls == MaxCalls + 1

InitRuns ==
    /\ InitStore
    /\ cfg \in {c \in Configs : /\ c.failures["threads"] = 0
                                /\ c.failures["messages"] = 0
                                /\ ~c.validate_thread_exists["messages"]}
    /\ lookup = NoLookup
    /\ private = SharedStore

NextRuns ==
    \/ Calls(RunsCalls) /\ ThreadsCreate(EmptyDict)
    \/ \E t \in PathThreadIds, content \in RunCreateBodies :
           Calls(RunsCalls) /\ RunsCreate(t, content)
    \/ \E t \in PathThreadIds, id \in PathRunIds : Calls(RunsCalls) /\ RunsRetrieve(t, id)
    \/ \E t \in PathThreadIds, q \in Queries : Calls(RunsCalls) /\ RunsList(t, q)
    \/ \E asst \in Assistants : AssistantsCreate(asst)
    \/ \E id \in 0..1 : AssistantsDelete(id)

SpecRuns == InitRuns /\ [][NextRuns]_vars

(***************************************************************************)
(* SpecStream: the scenario of test_handle_stream.  The mocks are applied  *)
(* without arguments; the run-create route answers with the event stream,  *)
(* which the consumer pulls while other requests may come in between.      *)
(***************************************************************************)
DefaultConfig ==
    [failures                  |-> [m \in Mocks |-> 0],
     validate_thread_exists    |-> [m \in {"messages", "runs"} |-> FALSE],
     validate_assistant_exists |-> FALSE,
     sequence                  |-> EmptyDict]

StreamCalls == MaxCalls + 1

InitStream ==
    /\ InitStore
    /\ cfg = DefaultConfig
    /\ lookup = NoLookup
    /\ private = SharedStore

NextStream ==
    \/ Calls(StreamCalls) /\ ThreadsCreate(EmptyDict)
    \/ \E t \in PathThreadIds : Calls(StreamCalls) /\ MessagesCreate(t, UserMessage)
    \/ \E t \in PathThreadIds, content \in RunCreateBodies :
           Calls(StreamCalls) /\ CreateRunStreamResponse(t, content)
    \/ Agenerate
    \/ \E t \in PathThreadIds, id \in PathRunIds : Calls(StreamCalls) /\ RunsRetrieve(t, id)
    \/ \E t \in PathThreadIds, q \in Queries : Calls(StreamCalls) /\ MessagesList(t, q)

SpecStream == InitStream /\ [][NextStream]_vars

(***************************************************************************)
(* SpecList: the messages mock applied without arguments; messages are     *)
(* created in two threads and listed with limit, order and after.          *)
(***************************************************************************)
ListCalls == MaxMessages + MaxCalls

ListThreadIds == 1..2

ListQueries ==
    [limit : {0, 2}, order : {NULL, "asc", "desc"}, after : PathMessageIds, before : {0}]

InitList ==
    /\ InitStore
    /\ cfg = DefaultConfig
    /\ lookup = NoLookup
    /\ private = SharedStore

NextList ==
    \/ \E t \in ListThreadIds :
           Calls(ListCalls) /\ Len(messages) < MaxMessages /\ MessagesCreate(t, UserMessage)
    \/ \E t \in ListThreadIds, q \in ListQueries : Calls(ListCalls) /\ MessagesList(t, q)

SpecList == InitList /\ [][NextList]_vars

(***************************************************************************)
(* SpecLookup: RunsMock._next_partial_run applied once to arguments drawn  *)
(* from bounded sets.                                                      *)
(***************************************************************************)
LookupEntries == {[status |-> "queued"], [status |-> "in_progress"]}

LookupLists == UNION {[1..n -> LookupEntries] : n \in 0..MaxSeqLen}

LookupSequences ==
    {EmptyDict}
    \cup {[create |-> c] : c \in LookupLists}
    \cup {[retrieve |-> r] : r \in LookupLists}
    \cup {[create |-> c, retrieve |-> r] : c \in LookupLists, r \in LookupLists}

InitLookup ==
    /\ InitStore
    /\ cfg = DefaultConfig
    /\ lookup \in [sequence : LookupSequences,
                   count    : 0..MaxCalls,
                   failures : 0..MaxFailures,
                   method   : {"create", "retrieve"},
                   done     : {FALSE},
                   result   : {<<>>}]
    /\ private = SharedStore

Lookup ==
    /\ ~lookup.done
    /\ lookup' = [lookup EXCEPT
                    !.done = TRUE,
                    !.result = NextPartialRun(lookup.sequence, lookup.count,
                                              lookup.failures, lookup.method)]
    /\ UNCHANGED <<threads, messages, runs, assistants, nextId, call_count, cfg, resp, stream, calls, private, request>>

SpecLookup == InitLookup /\ [][Lookup]_vars

(***************************************************************************)
(* SpecLatency: run creates made by overlapping callers while the runs     *)
(* mock has latency > 0.  A call first passes the @side_effect wrapper,    *)
(* which reads route.call_count to decide on an injected failure and then  *)
(* sleeps; after the delay the handler body runs and reads                 *)
(* route.call_count again for the index into the scripted list; at last    *)
(* respx records the call with its response, and only that advances        *)
(* route.call_count.  Nothing is locked, so other calls may take their     *)
(* steps in between.                                                       *)
(***************************************************************************)
Arrive(thread_id, content) ==
    /\ Len(calls) < MaxCalls
    /\ calls' = Append(calls, [thread_id |-> thread_id, content |-> content,
                               phase |-> "delayed", injected |-> Injected("runs.create"),
                               index |-> 0, status |-> 0, body |-> <<>>])
    /\ UNCHANGED <<threads, messages, runs, assistants, nextId, call_count, cfg, resp,
                   stream, lookup, private, request>>

Handle(i) ==
    LET call == calls[i]
        done(ix, status, body) ==
            calls' = [calls EXCEPT ![i].phase = "handled", ![i].index = ix,
                                   ![i].status = status, ![i].body = body]
        net_ix == call_count["runs.create"] - cfg.failures["runs"]
    IN  /\ call.phase = "delayed"
        /\ IF call.injected
           THEN /\ done(0, 500, <<>>)
                /\ UNCHANGED <<runs, nextId>>
           ELSE IF ThreadMissing("runs", call.thread_id)
           THEN /\ done(0, 404, <<>>)
                /\ UNCHANGED <<runs, nextId>>
           ELSE LET scripted == OrEmptyDict(NextPartialRun(cfg.sequence, call_count["runs.create"],
                                                           cfg.failures["runs"], "create"))
                IN  IF cfg.validate_assistant_exists /\ ~Has(assistants, call.content.assistant_id)
                    THEN /\ done(net_ix, 404, <<>>)
                         /\ UNCHANGED <<runs, nextId>>
                    ELSE LET partial_run ==
                                 IF cfg.validate_assistant_exists
                                 THEN MergePartialRunWithAssistant(
                                          scripted, Get(assistants, call.content.assistant_id))
                                 ELSE scripted
                             run == NewRun(nextId.run, call.thread_id, call.content, partial_run)
                         IN  /\ runs' = Put(runs, run)
                             /\ nextId' = [nextId EXCEPT !.run = @ + 1]
                             /\ done(net_ix, 201, <<run>>)
        /\ UNCHANGED <<threads, messages, assistants, call_count, cfg, resp, stream, lookup,
                       private, request>>

Record(i) ==
    /\ calls[i].phase = "handled"
    /\ calls' = [calls EXCEPT ![i].phase = "recorded"]
    /\ Respond("runs.create", <<calls[i].thread_id>>, calls[i].content,
               calls[i].status, calls[i].body)
    /\ UNCHANGED <<threads, messages, runs, assistants, nextId, cfg, stream, lookup, private, request>>

InitLatency ==
    /\ InitStore
    /\ cfg \in {c \in Configs : /\ c.failures["threads"] = 0
                                /\ c.failures["messages"] = 0
                                /\ ~c.validate_thread_exists["messages"]
                                /\ ~c.validate_thread_exists["runs"]
                                /\ ~c.validate_assistant_exists}
    /\ lookup = NoLookup
    /\ private = SharedStore

NextLatency ==
    \/ \E content \in RunCreateBodies : Arrive(1, content)
    \/ \E i \in DOMAIN calls : Handle(i)
    \/ \E i \in DOMAIN calls : Record(i)

SpecLatency == InitLatency /\ [][NextLatency]_vars

(***************************************************************************)
(* SpecStores: the threads mock and, with validate_thread_exists, the      *)
(* messages and runs mocks, each of the two either given the StateStore of *)
(* the threads mock or none, in which case "state_store or StateStore()"   *)
(* gives it a fresh store of its own.  The handlers of a mock with its own *)
(* store read and write that store.                                        *)
(***************************************************************************)
\* A mock that is handed no state_store falling back on the threads mock's.
UsesOwnStoreNever(mock) == FALSE

\* "state_store or StateStore()"
UsesOwnStore(mock) == ~private[mock].shared

\* MessagesMock._create on the mock's own store.
MessagesCreateOwn(thread_id, content) ==
    LET own == private["messages"].own
    IN  /\ IF Injected("messages.create")
           THEN /\ Respond("messages.create", <<thread_id>>, content, 500, <<>>)
                /\ UNCHANGED <<private, nextId>>
           ELSE IF cfg.validate_thread_exists["messages"] /\ ~Has(own.threads, thread_id)
           THEN /\ Respond("messages.create", <<thread_id>>, content, 404, <<>>)
                /\ UNCHANGED <<private, nextId>>
           ELSE LET message == ParseMessageCreateParams(nextId.message, thread_id, content)
                IN  /\ private' = [private EXCEPT
                                     !["messages"].own.messages = Put(own.messages, message)]
                    /\ nextId' = [nextId EXCEPT !.message = @ + 1]
                    /\ Respond("messages.create", <<thread_id>>, content, 201, <<message>>)
        /\ UNCHANGED <<threads, messages, runs, assistants, cfg, stream, lookup, calls, request>>

\* RunsMock._create on the mock's own store.
RunsCreateOwn(thread_id, content) ==
    LET own == private["runs"].own
    IN  /\ IF Injected("runs.create")
           THEN /\ Respond("runs.create", <<thread_id>>, content, 500, <<>>)
                /\ UNCHANGED <<private, nextId>>
           ELSE IF cfg.validate_thread_exists["runs"] /\ ~Has(own.threads, thread_id)
           THEN /\ Respond("runs.create", <<thread_id>>, content, 404, <<>>)
                /\ UNCHANGED <<private, nextId>>
           ELSE LET scripted == OrEmptyDict(NextPartialRun(cfg.sequence, call_count["runs.create"],
                                                           cfg.failures["runs"], "create"))
                IN  IF cfg.validate_assistant_exists /\ ~Has(own.assistants, content.assistant_id)
                    THEN /\ Respond("runs.create", <<thread_id>>, content, 404, <<>>)
                         /\ UNCHANGED <<private, nextId>>
                    ELSE LET partial_run ==
                                 IF cfg.validate_assistant_exists
                                 THEN MergePartialRunWithAssistant(
                                          scripted, Get(own.assistants, content.assistant_id))
                                 ELSE scripted
                             run == NewRun(nextId.run, thread_id, content, partial_run)
                         IN  /\ private' = [private EXCEPT !["runs"].own.runs = Put(own.runs, run)]
                             /\ nextId' = [nextId EXCEPT !.run = @ + 1]
                             /\ Respond("runs.create", <<thread_id>>, content, 201, <<run>>)
        /\ UNCHANGED <<threads, messages, runs, assistants, cfg, stream, lookup, calls, request>>

StoresCalls == MaxCalls + 1

InitStores ==
    /\ InitStore
    /\ cfg \in {c \in Configs : /\ \A m \in Mocks : c.failures[m] = 0
                                /\ ~c.validate_assistant_exists
                                /\ c.sequence = EmptyDict}
    /\ lookup = NoLookup
    /\ private \in [{"messages", "runs"} -> [shared : BOOLEAN, own : {FreshStore}]]

NextStores ==
    \/ \E content \in ThreadCreateBodies : Calls(StoresCalls) /\ ThreadsCreate(content)
    \/ \E id \in PathThreadIds : Calls(StoresCalls) /\ ThreadsDelete(id)
    \/ \E t \in PathThreadIds, content \in MessageCreateBodies :
           Calls(StoresCalls) /\ ~UsesOwnStore("messages") /\ MessagesCreate(t, content)
    \/ \E t \in PathThreadIds, content \in MessageCreateBodies :
           Calls(StoresCalls) /\ UsesOwnStore("messages") /\ MessagesCreateOwn(t, content)
    \/ \E t \in PathThreadIds, content \in RunCreateBodies :
           Calls(StoresCalls) /\ ~UsesOwnStore("runs") /\ RunsCreate(t, content)
    \/ \E t \in PathThreadIds, content \in RunCreateBodies :
           Calls(StoresCalls) /\ UsesOwnStore("runs") /\ RunsCreateOwn(t, content)

SpecStores == InitStores /\ [][NextStores]_vars

(***************************************************************************)
(* SpecDelete: threads created and deleted on a store shared by the three  *)
(* mocks, with requests for their ids before and after.                    *)
(***************************************************************************)
DeleteCalls == MaxCalls + 2

InitDelete ==
    /\ InitStore
    /\ cfg \in {c \in Configs : /\ Uniform(c)
                                /\ ~c.validate_assistant_exists
                                /\ c.sequence = EmptyDict}
    /\ lookup = NoLookup
    /\ private = SharedStore

NextDelete ==
    \/ Calls(DeleteCalls) /\ ThreadsCreate(EmptyDict)
    \/ \E id \in PathThreadIds : Calls(DeleteCalls) /\ ThreadsRetrieve(id)
    \/ \E id \in PathThreadIds : Calls(DeleteCalls) /\ ThreadsUpdate(id, [metadata |-> "m2"])
    \/ \E id \in PathThreadIds : Calls(DeleteCalls) /\ ThreadsDelete(id)
    \/ \E t \in PathThreadIds : Calls(DeleteCalls) /\ MessagesCreate(t, UserMessage)
    \/ \E t \in PathThreadIds : Calls(DeleteCalls) /\ RunsList(t, NoQuery)

SpecDelete == InitDelete /\ [][NextDelete]_vars

(***************************************************************************)
(* SpecDispatch: HTTP requests to the routes of ThreadsMock.  A url is the *)
(* sequence of path segments after {base}/threads.  respx tries the routes *)
(* in the order of their registration and runs the side effect of the      *)
(* first whose method and url pattern match; a url__regex pattern is       *)
(* searched for in the url, so it matches when the url begins with it.     *)
(***************************************************************************)
\* _register_routes: the routes in registration order, each with its method
\* and the number of path segments its pattern has after {base}/threads.
ThreadsRoutes ==
    <<[name |-> "threads.create",   method |-> "POST",   segments |-> 0],
      [name |-> "threads.retrieve", method |-> "GET",    segments |-> 1],
      [name |-> "threads.update",   method |-> "POST",   segments |-> 1],
      [name |-> "threads.delete",   method |-> "DELETE", segments |-> 1]>>

RegexSearch(segments, url) == segments <= Len(url)

Matches(route, req) == route.method = req.method /\ RegexSearch(route.segments, req.url)

Resolve(req) ==
    LET hits == {i \in DOMAIN ThreadsRoutes : Matches(ThreadsRoutes[i], req)}
    IN  IF hits = {} THEN "none"
        ELSE ThreadsRoutes[CHOOSE i \in hits : \A j \in hits : i <= j].name

Requests ==
    [method : {"POST"}, url : {<<>>} \cup {<<id>> : id \in PathThreadIds},
     content : ThreadCreateBodies \cup UpdateBodies]
    \cup [method : {"GET", "DELETE"}, url : {<<id>> : id \in PathThreadIds},
          content : {EmptyDict}]

Send(req) ==
    /\ request' = req
    /\ UNCHANGED <<threads, messages, runs, assistants, nextId, call_count, cfg, resp, stream,
                   lookup, calls, private>>

\* "*_, id = request.url.path.split("/")": the id is the last segment.
Serve ==
    LET route == Resolve(request)
        id    == request.url[Len(request.url)]
    IN  CASE route = "threads.create"   -> ThreadsCreate(request.content)
          [] route = "threads.retrieve" -> ThreadsRetrieve(id)
          [] route = "threads.update"   -> ThreadsUpdate(id, request.content)
          [] route = "threads.delete"   -> ThreadsDelete(id)
          [] OTHER -> FALSE

DispatchCalls == MaxCalls + 1

InitDispatch ==
    /\ InitStore
    /\ cfg \in {c \in Configs : /\ c.failures["messages"] = 0
                                /\ c.failures["runs"] = 0
                                /\ \A m \in {"messages", "runs"} : ~c.validate_thread_exists[m]
                                /\ ~c.validate_assistant_exists
                                /\ c.sequence = EmptyDict}
    /\ lookup = NoLookup
    /\ private = SharedStore

NextDispatch ==
    \/ \E req \in Requests : Send(req)
    \/ Calls(DispatchCalls) /\ Serve

SpecDispatch == InitDispatch /\ [][NextDispatch]_vars

(***************************************************************************)
(* Properties of the handlers.                                             *)
(***************************************************************************)
\* The step is one invocation of route r.
Called(r) == call_count'[r] = call_count[r] + 1

Ok(status) == status \in 200..299

ThreadScoped == {"messages.create", "messages.list", "messages.retrieve", "messages.update",
                 "runs.create", "runs.list", "runs.retrieve"}

\* C1: on every route of the three mocks, each of the first `failures`
\* invocations is answered 5xx and leaves the store unchanged, and every later
\* invocation is handled by the handler (no 5xx).
C1_FailureInjection ==
    [][\A r \in Routes :
          Called(r) =>
              IF call_count[r] < cfg.failures[MockOf(r)]
              THEN resp'.status >= 500 /\ store' = store
              ELSE resp'.status < 500]_vars

\* C5: with validate_thread_exists set and a thread_id that is not in the
\* thread collection, every message and run handler leaves the message and
\* run collections as they were and, unless the call is one of the
\* failure-injected ones, responds 404.
C5_MissingThread ==
    [][\A r \in ThreadScoped :
          (/\ Called(r)
           /\ cfg.validate_thread_exists[MockOf(r)]
           /\ ~Has(threads, resp'.path[1]))
          => /\ messages' = messages
             /\ runs' = runs
             /\ (~Injected(r) => resp'.status = 404)]_vars

\* C5 witness: a message create for a deleted thread was answered 404 while
\* the message collection holds a message.
C5_Witness ==
    /\ resp.route = "messages.create"
    /\ resp.status = 404
    /\ cfg.validate_thread_exists["messages"]
    /\ ~Has(threads, resp.path[1])
    /\ messages # <<>>

\* C6: an invocation of any handler that responds with a non-2xx status (404
\* or an injected 500) leaves threads, messages, runs and assistants as they
\* were.
C6_Atomicity ==
    [][\A r \in Routes : (Called(r) /\ ~Ok(resp'.status)) => store' = store]_vars

\* C6 witness: an update of a thread that is not in the store was answered 404
\* while the store holds another thread.
C6_Witness ==
    /\ resp.route = "threads.update"
    /\ resp.status = 404
    /\ threads # <<>>

\* C7: a thread delete that is not failure-injected responds 200 with
\* deleted = (the id was in the store when the call was made), and the id is
\* not in the store afterwards (so a second delete of it reports false).
C7_ThreadDelete ==
    [][(Called("threads.delete") /\ ~Injected("threads.delete"))
       => /\ resp'.status = 200
          /\ resp'.body = <<[id |-> resp'.path[1], deleted |-> Has(threads, resp'.path[1])]>>
          /\ ~Has(threads', resp'.path[1])]_vars

\* C7 witness: the one thread created was deleted twice, and the second delete
\* was answered 200 with deleted = false.
C7_Witness ==
    /\ cfg.failures["threads"] = 0
    /\ call_count["threads.create"] = 1
    /\ call_count["threads.delete"] = 2
    /\ resp.route = "threads.delete"
    /\ resp.path = <<1>>
    /\ resp.status = 200
    /\ resp.body[1].deleted = FALSE

\* A successful create added the entries of coll' beyond coll, and nothing
\* else: `added` new entries, each under an id the generator of that kind had
\* not given out before (ids below `next` have been given out), all ids of
\* the collection distinct, and the entries that were there unchanged.
GrewBy(coll, after, added, next) ==
    /\ Len(after) = Len(coll) + added
    /\ SubSeq(after, 1, Len(coll)) = coll
    /\ \A i \in (Len(coll) + 1)..Len(after) : after[i].id >= next /\ ~Has(coll, after[i].id)
    /\ Cardinality(Ids(after)) = Len(after)

\* C13: every successful create of a thread, message or run stores the new
\* entity under an id never used before in its collection; a thread create
\* does so for each of its initial messages too; no existing entity is
\* overwritten and each collection grows by exactly the number of entities
\* created.
C13_IdFreshness ==
    [][/\ (Called("threads.create") /\ resp'.status = 201)
          => /\ GrewBy(threads, threads', 1, nextId.thread)
             /\ threads'[Len(threads')] = resp'.body[1]
             /\ GrewBy(messages, messages',
                       Len(DictGet(resp'.content, "messages", <<>>)), nextId.message)
             /\ runs' = runs
       /\ (Called("messages.create") /\ resp'.status = 201)
          => /\ GrewBy(messages, messages', 1, nextId.message)
             /\ messages'[Len(messages')] = resp'.body[1]
             /\ threads' = threads /\ runs' = runs
       /\ (Called("runs.create") /\ resp'.status = 201)
          => /\ GrewBy(runs, runs', 1, nextId.run)
             /\ runs'[Len(runs')] = resp'.body[1]
             /\ threads' = threads /\ messages' = messages]_vars

\* C13 witness: after a thread was created and deleted, a second thread was
\* created with two initial messages; it has a new id and the two messages
\* are stored under two ids.
C13_Witness ==
    /\ call_count["threads.delete"] = 1
    /\ resp.route = "threads.create"
    /\ resp.status = 201
    /\ resp.body[1].id = 2
    /\ Len(threads) = 1
    /\ Len(DictGet(resp.content, "messages", <<>>)) = 2
    /\ Cardinality({messages[i].id : i \in {j \in DOMAIN messages : messages[j].thread_id = 2}}) = 2

\* coll' is coll with at most the metadata of the entity `id` changed, to the
\* metadata of the body when the body has that key: same length and order,
\* every other entity as it was, every other field of the entity as it was.
OnlyMetadata(coll, after, id, content) ==
    /\ DOMAIN after = DOMAIN coll
    /\ \A i \in DOMAIN coll :
          IF coll[i].id # id THEN after[i] = coll[i]
          ELSE /\ after[i].id = coll[i].id
               /\ after[i].created_at = coll[i].created_at
               /\ [after[i] EXCEPT !.metadata = coll[i].metadata] = coll[i]
               /\ after[i].metadata = IF "metadata" \in DOMAIN content THEN content.metadata
                                      ELSE coll[i].metadata

\* C14: a thread or message update answered 200 changes at most the metadata
\* of the entity whose id is in the path (to the body's metadata when the
\* body has the key, kept otherwise) and returns that entity; its other
\* fields, every other entity and the number and order of the entities of
\* every collection are unchanged.
C14_UpdateFrame ==
    [][/\ (Called("threads.update") /\ resp'.status = 200)
          => /\ OnlyMetadata(threads, threads', resp'.path[1], resp'.content)
             /\ resp'.body = <<Get(threads', resp'.path[1])>>
             /\ messages' = messages /\ runs' = runs /\ assistants' = assistants
       /\ (Called("messages.update") /\ resp'.status = 200)
          => /\ OnlyMetadata(messages, messages', resp'.path[2], resp'.content)
             /\ resp'.body = <<Get(messages', resp'.path[2])>>
             /\ threads' = threads /\ runs' = runs /\ assistants' = assistants]_vars

\* C14 witness: of the two messages of a thread the second was updated with a
\* body that has metadata, and it is still the second of two messages.
C14_Witness ==
    /\ resp.route = "messages.update"
    /\ resp.status = 200
    /\ resp.content = [metadata |-> "m2"]
    /\ Len(messages) = 2
    /\ resp.path[2] = messages[2].id
    /\ messages[2].metadata = "m2"
    /\ messages[1].metadata = NULL

\* The scripted entry the runs handler of `method` looks up in this call.
ScriptedEntry(method) ==
    OrEmptyDict(NextPartialRun(cfg.sequence, call_count["runs." \o method],
                               cfg.failures["runs"], method))

\* The routes whose handler is wrapped by @side_effect.
Wrapped == Routes \ {"runs.retrieve", "runs.list"}

\* C19: an invocation of a route raises the call count of that route by one
\* and leaves the count of every other route as it is; whether it is failed
\* by injection depends on the count of its own route alone (failed exactly
\* when the handler is wrapped and that count is below `failures`); and,
\* without assistant validation, the status a run create or retrieve applies
\* is that of the scripted entry at its own route's count.
C19_CountersPerRoute ==
    [][call_count' # call_count =>
        LET route == resp'.route
        IN  /\ route \in Routes
            /\ call_count' = [call_count EXCEPT ![route] = @ + 1]
            /\ resp'.status = 500
                 <=> (route \in Wrapped /\ call_count[route] < cfg.failures[MockOf(route)])
            /\ (route = "runs.create" /\ resp'.status = 201 /\ ~cfg.validate_assistant_exists)
               => resp'.body[1].status = DictGet(ScriptedEntry("create"), "status", "queued")
            /\ (route = "runs.retrieve" /\ resp'.status = 200 /\ ~cfg.validate_assistant_exists)
               => resp'.body[1].status = DictGet(ScriptedEntry("retrieve"), "status",
                                                Get(runs, resp'.path[2]).status)]_vars

\* C19 witness: with failures = 1 the first run create was failed, a thread
\* create was then failed as the first call of its own route, and the second
\* run create was handled.
C19_Witness ==
    /\ cfg.failures["runs"] = 1
    /\ cfg.failures["threads"] = 1
    /\ call_count["runs.create"] = 2
    /\ call_count["threads.create"] = 1
    /\ resp.route = "runs.create"
    /\ resp.status \in {201, 404}
    /\ TotalCalls = 3

\* C21: with validate_thread_exists off and a thread_id that is not in the
\* thread collection, a message create and a run create (not failure-injected,
\* and not refused for a missing assistant) respond 201 and store the entity
\* with that thread_id; a list responds 200; a retrieve or update responds
\* 404 only when the message or run itself is not in the store.
C21_ValidationOff ==
    [][\A r \in ThreadScoped :
          (/\ Called(r)
           /\ ~cfg.validate_thread_exists[MockOf(r)]
           /\ ~Has(threads, resp'.path[1])
           /\ ~(r \in Wrapped /\ Injected(r)))
          => CASE r = "messages.create" ->
                    /\ resp'.status = 201
                    /\ resp'.body[1].thread_id = resp'.path[1]
                    /\ Has(messages', resp'.body[1].id)
                    /\ Get(messages', resp'.body[1].id) = resp'.body[1]
               [] r = "runs.create" ->
                    IF cfg.validate_assistant_exists
                       /\ ~Has(assistants, resp'.content.assistant_id)
                    THEN resp'.status = 404
                    ELSE /\ resp'.status = 201
                         /\ resp'.body[1].thread_id = resp'.path[1]
                         /\ Has(runs', resp'.body[1].id)
                         /\ Get(runs', resp'.body[1].id) = resp'.body[1]
               [] r \in {"messages.list", "runs.list"} -> resp'.status = 200
               [] r \in {"messages.retrieve", "messages.update"} ->
                    resp'.status = (IF Has(messages, resp'.path[2]) THEN 200 ELSE 404)
               [] OTHER ->
                    resp'.status = (IF Has(runs, resp'.path[2]) THEN 200 ELSE 404)]_vars

\* C21 witness: without validation, a message created for a thread_id that
\* was never a thread was then updated through that thread_id and answered 200.
C21_Witness ==
    /\ ~cfg.validate_thread_exists["messages"]
    /\ resp.route = "messages.update"
    /\ resp.status = 200
    /\ resp.path[1] = 0
    /\ resp.body[1].thread_id = 0
    /\ ~Has(threads, 0)
    /\ Has(messages, resp.body[1].id)

\* C23: a thread create that is not failure-injected responds 201, stores the
\* thread and, for a body with k messages, exactly k new messages after
\* those already stored, the i-th with the role and content of the i-th
\* message of the body, the id of the new thread as thread_id and status
\* completed; a failure-injected thread create stores nothing.
C23_InitialMessages ==
    [][Called("threads.create") =>
        IF Injected("threads.create")
        THEN resp'.status = 500 /\ store' = store
        ELSE LET params == DictGet(resp'.content, "messages", <<>>)
                 thread == resp'.body[1]
                 n      == Len(messages)
             IN  /\ resp'.status = 201
                 /\ threads' = Append(threads, thread)
                 /\ Len(messages') = n + Len(params)
                 /\ SubSeq(messages', 1, n) = messages
                 /\ \A i \in DOMAIN params :
                       /\ messages'[n + i].thread_id = thread.id
                       /\ messages'[n + i].status = "completed"
                       /\ messages'[n + i].role = params[i].role
                       /\ messages'[n + i].content[1].value = params[i].content]_vars

\* C23 witness: after a failure-injected thread create that stored nothing, a
\* thread was created with two initial messages, stored in the order of the
\* body.
C23_Witness ==
    /\ cfg.failures["threads"] = 1
    /\ call_count["threads.create"] = 2
    /\ resp.route = "threads.create"
    /\ resp.status = 201
    /\ Len(threads) = 1
    /\ Len(messages) = 2
    /\ messages[1].content[1].value = "Hello!"
    /\ messages[2].content[1].value = "Hi"
    /\ messages[2].thread_id = resp.body[1].id

\* C24: a message retrieve or update, or a run retrieve, through the path of
\* thread T responds 200 only when the stored entity has thread_id T; for an
\* entity of another thread it responds without success (404, or an injected
\* 500) and leaves the entity as it is.
C24_ThreadScoping ==
    [][\A r \in {"messages.retrieve", "messages.update", "runs.retrieve"} :
          LET coll == IF MockOf(r) = "messages" THEN messages ELSE runs
              after == IF MockOf(r) = "messages" THEN messages' ELSE runs'
          IN  (Called(r) /\ Has(coll, resp'.path[2])
                 /\ Get(coll, resp'.path[2]).thread_id # resp'.path[1])
              => /\ resp'.status \in {404, 500}
                 /\ after = coll]_vars

\* The thread ids for which a delete has returned deleted = true: a thread
\* enters the store with its create and leaves it only by such a delete, so
\* these are the ids given out that the store no longer holds.
DeletedIds == {id \in 1..(nextId.thread - 1) : ~Has(threads, id)}

\* C25: a delete that returns deleted = true removes the thread; from then on
\* no step brings the id back; every later retrieve and update of it that is
\* not failure-injected responds 404, every such delete returns deleted =
\* false, and every message or run request for it under
\* validate_thread_exists responds without success (404, or an injected 500).
C25_DeletionPermanent ==
    [][/\ DeletedIds \subseteq {id \in 1..(nextId'.thread - 1) : ~Has(threads', id)}
       /\ (Called("threads.delete") /\ resp'.status = 200 /\ resp'.body[1].deleted)
          => (Has(threads, resp'.path[1]) /\ ~Has(threads', resp'.path[1]))
       /\ \A r \in Routes \ {"threads.create"} :
             (Called(r) /\ resp'.path[1] \in DeletedIds)
             => CASE r \in {"threads.retrieve", "threads.update"} ->
                       resp'.status = (IF Injected(r) THEN 500 ELSE 404)
                  [] r = "threads.delete" ->
                       ~Injected(r) => (resp'.status = 200 /\ ~resp'.body[1].deleted)
                  [] OTHER ->
                       cfg.validate_thread_exists[MockOf(r)] => resp'.status \in {404, 500}]_vars

\* C25 witness: thread 1 was created and deleted, a second thread was
\* created, and a retrieve of thread 1 after that was answered 404.
C25_Witness ==
    /\ call_count["threads.create"] = 2
    /\ call_count["threads.delete"] = 1
    /\ call_count["threads.retrieve"] = 1
    /\ resp.route = "threads.retrieve"
    /\ resp.path = <<1>>
    /\ resp.status = 404
    /\ Has(threads, 2)
    /\ 1 \in DeletedIds

(***************************************************************************)
(* Properties of the runs mock.                                            *)
(***************************************************************************)
\* The entry of the scripted list of `method` at position ix (from 0), or the
\* empty dict when the list is shorter.
EntryAt(method, ix) ==
    LET list == DictGet(cfg.sequence, method, <<>>)
    IN  IF ix < Len(list) THEN list[ix + 1] ELSE EmptyDict

\* C2: with failures = 0 and no assistant validation, the first invocation of
\* create returns a run with the status of create[0]; the i-th invocation of
\* retrieve (i <= k) returns and persists the status of retrieve[i-1]; every
\* later retrieve returns the persisted status and leaves the run as it is.
\* (An entry that sets no status leaves the default, or the stored status.)
C2_ScriptedProgression ==
    [][(cfg.failures["runs"] = 0 /\ ~cfg.validate_assistant_exists) =>
        /\ (Called("runs.create") /\ Ok(resp'.status) /\ call_count["runs.create"] = 0)
           => /\ resp'.body[1].status = DictGet(EntryAt("create", 0), "status", "queued")
              /\ Get(runs', resp'.body[1].id) = resp'.body[1]
        /\ (Called("runs.retrieve") /\ Ok(resp'.status))
           => LET i     == call_count["runs.retrieve"]
                  k     == Len(DictGet(cfg.sequence, "retrieve", <<>>))
                  old   == Get(runs, resp'.path[2])
                  run   == resp'.body[1]
              IN  /\ Get(runs', resp'.path[2]) = run
                  /\ run.status = DictGet(EntryAt("retrieve", i), "status", old.status)
                  /\ i >= k => run = old /\ runs' = runs]_vars

\* C2 witness: under create:[queued], retrieve:[in_progress, completed] the
\* one run created was retrieved three times and the third retrieve returned
\* completed.
C2_Witness ==
    /\ cfg.sequence = ScriptedRun
    /\ cfg.failures["runs"] = 0
    /\ ~cfg.validate_assistant_exists
    /\ call_count["runs.create"] = 1
    /\ call_count["runs.retrieve"] = 3
    /\ resp.route = "runs.retrieve"
    /\ resp.status = 200
    /\ resp.body[1].status = "completed"
    /\ Len(runs) = 1

\* The four defaulted fields of the run a create returned, against the
\* scripted entry of that call and the assistant it names; `none` is what the
\* run's instructions are when the assistant has no instructions.
DefaultedFromAssistant(run, entry, asst, none) ==
    /\ run.model = DictGet(entry, "model", asst.model)
    /\ run.instructions =
           DictGet(entry, "instructions", IF asst.instructions = NULL THEN none
                                          ELSE asst.instructions)
    /\ run.file_ids = DictGet(entry, "file_ids", asst.file_ids)
    /\ run.tools = IF "tools" \in DOMAIN entry THEN ParseToolParams(entry.tools)
                   ELSE asst.tools

CreatedUnderValidation(none) ==
    (Called("runs.create") /\ resp'.status = 201 /\ cfg.validate_assistant_exists)
    => LET run   == resp'.body[1]
           entry == EntryAt("create", call_count["runs.create"] - cfg.failures["runs"])
           asst  == Get(assistants, resp'.content.assistant_id)
       IN  /\ Get(runs', run.id) = run
           /\ DefaultedFromAssistant(run, entry, asst, none)

\* C8 as stated: under validate_assistant_exists a created run's model,
\* instructions, file_ids and tools are the scripted entry's where it sets
\* them and the assistant's own values otherwise.
C8_Original == [][CreatedUnderValidation(NULL)]_vars

\* C8 as amended: the same, except that an assistant without instructions
\* (null) gives the run the empty string as its instructions.
C8_AssistantDefaulting == [][CreatedUnderValidation("")]_vars

\* C8 witness: a run was created under validate_assistant_exists from a
\* scripted entry that sets the model and nothing else of the four fields.
C8_Witness ==
    /\ cfg.validate_assistant_exists
    /\ cfg.sequence = ScriptedAction
    /\ resp.route = "runs.create"
    /\ resp.status = 201
    /\ resp.body[1].model = "gpt-4o"
    /\ resp.body[1].tools = MathTutor.tools
    /\ resp.body[1].file_ids = MathTutor.file_ids

\* C9: under validate_assistant_exists with the referenced assistant absent, a
\* run create (not failure-injected) responds 404 and stores no run; a
\* retrieve of an existing run (whose thread passes validation) responds 200
\* with the stored run changed by the scripted entry alone.
C9_AssistantAbsent ==
    [][cfg.validate_assistant_exists =>
        /\ (Called("runs.create") /\ ~Injected("runs.create")
              /\ ~Has(assistants, resp'.content.assistant_id))
           => resp'.status = 404 /\ runs' = runs
        /\ (Called("runs.retrieve") /\ ~ThreadMissing("runs", resp'.path[1])
              /\ Has(runs, resp'.path[2])
              /\ ~Has(assistants, Get(runs, resp'.path[2]).assistant_id))
           => LET old   == Get(runs, resp'.path[2])
                  entry == OrEmptyDict(NextPartialRun(cfg.sequence, call_count["runs.retrieve"],
                                                      cfg.failures["runs"], "retrieve"))
              IN  /\ resp'.status = 200
                  /\ resp'.body = <<ApplyPartialRun(old, entry)>>
                  /\ runs' = Put(runs, ApplyPartialRun(old, entry))]_vars

\* C9 witness: a run created while its assistant existed was retrieved after
\* the assistant was deleted, and the scripted status was applied.
C9_Witness ==
    /\ cfg.validate_assistant_exists
    /\ cfg.sequence = ScriptedRun
    /\ cfg.failures["runs"] = 0
    /\ resp.route = "runs.retrieve"
    /\ resp.status = 200
    /\ call_count["runs.retrieve"] = 1
    /\ ~Has(assistants, resp.body[1].assistant_id)
    /\ resp.body[1].status = "in_progress"

\* The fields of a run that only a scripted entry sets.
ScriptedFields(run) ==
    [status          |-> run.status,
     required_action |-> run.required_action,
     last_error      |-> run.last_error,
     expires_at      |-> run.expires_at,
     started_at      |-> run.started_at,
     cancelled_at    |-> run.cancelled_at,
     failed_at       |-> run.failed_at,
     completed_at    |-> run.completed_at]

\* C15: under validate_assistant_exists with the assistant present, the
\* status, required_action, last_error and timestamps of the run a create or
\* a retrieve returns are what the scripted entry of the call gives without
\* assistant validation: the entry's values over the defaults on create, and
\* over the stored run on retrieve.
C15_ScriptedFieldsWin ==
    [][cfg.validate_assistant_exists =>
        /\ (Called("runs.create") /\ resp'.status = 201)
           => ScriptedFields(resp'.body[1])
                = ScriptedFields(NewRun(resp'.body[1].id, resp'.path[1], resp'.content,
                                        ScriptedEntry("create")))
        /\ (Called("runs.retrieve") /\ resp'.status = 200
              /\ Has(assistants, Get(runs, resp'.path[2]).assistant_id))
           => ScriptedFields(resp'.body[1])
                = ScriptedFields(ApplyPartialRun(Get(runs, resp'.path[2]),
                                                 ScriptedEntry("retrieve")))]_vars

\* The lookup of this retrieve in the scripted retrieve list gives no entry.
NoRetrieveEntry ==
    NextPartialRun(cfg.sequence, call_count["runs.retrieve"], cfg.failures["runs"], "retrieve")
        = <<>>

\* C16: under every configuration, a run retrieve answered 200 whose call
\* index has no entry in the scripted retrieve list returns the stored run as
\* it was before the call and leaves the run collection unchanged.
C16_RetrieveNoEntry ==
    [][(Called("runs.retrieve") /\ resp'.status = 200 /\ NoRetrieveEntry)
       => /\ resp'.body = <<Get(runs, resp'.path[2])>>
          /\ runs' = runs]_vars

\* C17: a run create or retrieve answered 404 does not consume an entry of
\* the scripted list.  With failures = 0 and no assistant validation: when
\* the only earlier invocation of the route was answered 404, the invocation
\* that succeeds next is the first to succeed and applies the first entry of
\* the list (its status, over the default on create and over the stored
\* status on retrieve).
C17_EntriesConsumed ==
    [][(cfg.failures["runs"] = 0 /\ ~cfg.validate_assistant_exists) =>
        \A method \in {"create", "retrieve"} :
            LET route == "runs." \o method
            IN  (/\ Called(route)
                 /\ Ok(resp'.status)
                 /\ call_count[route] = 1
                 /\ resp.route = route
                 /\ resp.status = 404)
                => resp'.body[1].status =
                       DictGet(EntryAt(method, 0), "status",
                               IF method = "create" THEN "queued"
                               ELSE Get(runs, resp'.path[2]).status)]_vars

(***************************************************************************)
(* Properties of the event stream.                                         *)
(***************************************************************************)
EventOrder == <<"thread.run.created", "thread.run.in_progress",
                "thread.message.created", "thread.run.completed">>

Min(a, b) == IF a < b THEN a ELSE b

\* The messages the stream of `run` has stored.
StreamMessages(run) ==
    {i \in DOMAIN messages : messages[i].run_id = run.id}

\* The status the stored run has once n events have been yielded (n >= 1).
StatusAfter(n, initial) ==
    IF n = 1 THEN initial ELSE IF n <= 3 THEN "in_progress" ELSE "completed"

\* C3: the stream yields the four events in the fixed order and then ends;
\* each pull adds nothing to the message collection except the third, which
\* adds one message; once the stream has ended the thread holds exactly one
\* message of this run (assistant, completed) and the stored run is
\* completed; creating the stream is one invocation of the run-create route
\* and pulling it is none.
C3_StreamedRun ==
    /\ [](stream.active =>
            /\ stream.emitted = SubSeq(EventOrder, 1, Min(stream.pc, 4))
            /\ stream.pc = 5 =>
                 LET run == stream.created_run[1]
                 IN  /\ Has(runs, run.id)
                     /\ Get(runs, run.id).status = "completed"
                     /\ Cardinality(StreamMessages(run)) = 1
                     /\ \A i \in StreamMessages(run) :
                           /\ messages[i].role = "assistant"
                           /\ messages[i].status = "completed"
                           /\ messages[i].thread_id = run.thread_id)
    /\ [][stream' # stream =>
            IF stream'.pc = 0
            THEN call_count'["runs.create"] = call_count["runs.create"] + 1
            ELSE /\ call_count' = call_count
                 /\ Len(messages') = Len(messages) + (IF stream.pc = 2 THEN 1 ELSE 0)]_vars

\* C3 witness: as in test_handle_stream, after one thread, one user message
\* and one streamed run the stream has ended and the store holds two
\* messages, the second one the assistant's.
C3_Witness ==
    /\ stream.active
    /\ stream.pc = 5
    /\ call_count["runs.create"] = 1
    /\ call_count["messages.create"] = 1
    /\ Len(messages) = 2
    /\ messages[1].role = "user"
    /\ messages[2].role = "assistant"

\* C4: whenever the stream is suspended after a yield, the store holds the run
\* in the state the last event reports (stored at all after created,
\* in_progress after in_progress, completed after completed), the payload of
\* a run event is the stored run, and after message.created the assistant
\* message is stored; a retrieve of the run between two pulls returns that
\* status.
C4_MutateBeforeEmit ==
    /\ []((stream.active /\ stream.pc \in 1..4) =>
            LET run == stream.created_run[1]
                status == StatusAfter(stream.pc, "queued")
            IN  /\ Has(runs, run.id)
                /\ Get(runs, run.id).status = status
                /\ stream.pc # 3 => (stream.data = <<Get(runs, run.id)>>
                                     /\ stream.data[1].status = status)
                /\ stream.pc = 3 => (Has(messages, stream.data[1].id)
                                     /\ stream.data = <<Get(messages, stream.data[1].id)>>))
    /\ [][(/\ Called("runs.retrieve")
           /\ stream.active
           /\ stream.pc \in 1..4
           /\ resp'.path[2] = stream.created_run[1].id)
          => /\ resp'.status = 200
             /\ resp'.body[1].status = StatusAfter(stream.pc, "queued")]_vars

\* C4 witness: a retrieve of the streamed run, made after the in_progress
\* event and before the next pull, returned in_progress.
C4_Witness ==
    /\ stream.active
    /\ stream.pc = 2
    /\ resp.route = "runs.retrieve"
    /\ resp.status = 200
    /\ resp.body[1].id = stream.created_run[1].id
    /\ resp.body[1].status = "in_progress"

\* What the store holds of the streamed run: the stored run, if any, and the
\* messages of the run.
StoredOf(rs, ms, run) ==
    [run      |-> IF Has(rs, run.id) THEN <<Get(rs, run.id)>> ELSE <<>>,
     messages |-> {ms[i] : i \in {j \in DOMAIN ms : ms[j].run_id = run.id}}]

\* C18: the store holds exactly the mutations of the events pulled so far:
\* before the first pull the run is not stored; after k pulls the run is
\* stored with the status of the k-th event and the assistant message exists
\* only from the third pull on; creating the stream stores nothing; and a
\* step that is not a pull of the stream leaves what the store holds of the
\* run as it is.
C18_PartialConsumption ==
    /\ [](stream.active =>
            LET run == stream.created_run[1]
                k   == Min(stream.pc, 4)
                had == StoredOf(runs, messages, run)
            IN  /\ k = 0 => had.run = <<>>
                /\ k >= 1 => (had.run # <<>> /\ had.run[1].status = StatusAfter(k, "queued"))
                /\ Cardinality(had.messages) = (IF k >= 3 THEN 1 ELSE 0))
    /\ [][/\ (stream' # stream /\ stream'.pc = 0) => (runs' = runs /\ messages' = messages)
          /\ (stream' = stream /\ stream.active)
             => StoredOf(runs', messages', stream.created_run[1])
                  = StoredOf(runs, messages, stream.created_run[1])]_vars

\* C18 witness: the consumer stopped after two pulls; a later listing of the
\* run's thread found the user message only, and the run is stored as
\* in_progress.
C18_Witness ==
    /\ stream.active
    /\ stream.pc = 2
    /\ resp.route = "messages.list"
    /\ resp.status = 200
    /\ resp.path = <<stream.created_run[1].thread_id>>
    /\ Len(resp.body) = 1
    /\ resp.body[1].role = "user"
    /\ Get(runs, stream.created_run[1].id).status = "in_progress"

(***************************************************************************)
(* Properties of store sharing.                                            *)
(***************************************************************************)
\* C20: with validate_thread_exists, a message or run create for a thread
\* that is in the store of the threads mock responds 404 when the mock was
\* configured without a state_store (it has a fresh store of its own) and
\* 201 when it was given the StateStore of the threads mock.
C20_StoreSharing ==
    [][\A mock \in {"messages", "runs"} :
          (/\ Called(mock \o ".create")
           /\ cfg.validate_thread_exists[mock]
           /\ Has(threads, resp'.path[1]))
          => resp'.status = (IF private[mock].shared THEN 201 ELSE 404)]_vars

\* C20 witness: a message create for a thread that the threads mock holds was
\* answered 404 by a messages mock with a store of its own.
C20_Witness ==
    /\ resp.route = "messages.create"
    /\ resp.status = 404
    /\ cfg.validate_thread_exists["messages"]
    /\ ~private["messages"].shared
    /\ Has(threads, resp.path[1])
    /\ private["messages"].own.messages = <<>>

(***************************************************************************)
(* Properties of route dispatch.                                           *)
(***************************************************************************)
\* C22: a POST to {base}/threads/{id} is handled by the update handler (200
\* or 404, or the injected 500) and never by the create handler; a POST to
\* {base}/threads is handled by the create handler; and no request to a path
\* with an id adds a thread to the store.
C22_RouteDispatch ==
    [][call_count' # call_count =>
        /\ (request.method = "POST" /\ Len(request.url) = 1)
           => /\ resp'.route = "threads.update"
              /\ resp'.status \in {200, 404, 500}
        /\ (request.method = "POST" /\ Len(request.url) = 0)
           => resp'.route = "threads.create"
        /\ Len(request.url) = 1 => Len(threads') <= Len(threads)]_vars

(***************************************************************************)
(* Properties of listing.                                                  *)
(***************************************************************************)
\* The position in creation order of the message with the given id.
PosOf(id) == CHOOSE i \in DOMAIN messages : messages[i].id = id

\* The positions a listing of thread t with query q may return: the thread's
\* own messages, strictly after the cursor in the ordering asked for.
Eligible(t, q) ==
    LET own == {i \in DOMAIN messages : messages[i].thread_id = t}
    IN  IF q.after = 0 THEN own
        ELSE IF ~(\E i \in own : messages[i].id = q.after) THEN {}
        ELSE IF q.order = "asc" THEN {i \in own : i > PosOf(q.after)}
        ELSE {i \in own : i < PosOf(q.after)}

\* C11: a message listing with order asc or desc returns stored messages of
\* the thread in the path only; without limit and cursor it returns all N of
\* them; the entries are in creation order for asc and in reverse creation
\* order for desc; with limit n it returns the first n entries of that
\* ordering, and with after set to an id it returns the (at most n) entries
\* that follow that id in the same ordering.
C11_MessageListing ==
    [][(Called("messages.list") /\ resp'.status = 200 /\ resp'.content.order \in {"asc", "desc"})
       => LET t    == resp'.path[1]
              q    == resp'.content
              body == resp'.body
              asc  == q.order = "asc"
              n    == IF q.limit = 0 THEN DefaultLimit ELSE q.limit
              el   == Eligible(t, q)
              sel  == {PosOf(body[k].id) : k \in DOMAIN body}
          IN  /\ \A k \in DOMAIN body :
                    /\ Has(messages, body[k].id)
                    /\ body[k] = Get(messages, body[k].id)
                    /\ body[k].thread_id = t
              /\ sel \subseteq el
              /\ Len(body) = Min(n, Cardinality(el))
              /\ \A j, k \in DOMAIN body :
                    j < k => IF asc THEN PosOf(body[j].id) < PosOf(body[k].id)
                                    ELSE PosOf(body[j].id) > PosOf(body[k].id)
              /\ \A i \in el \ sel, k \in sel : IF asc THEN i > k ELSE i < k
              /\ messages' = messages]_vars

\* C11 witness: five messages are in thread 1 and one in thread 2; the second
\* listing of thread 1, with order asc, limit 2 and after set to the second
\* message of the thread, returned its third and fourth message.
C11_Witness ==
    /\ call_count["messages.list"] = 2
    /\ resp.route = "messages.list"
    /\ resp.status = 200
    /\ resp.path = <<1>>
    /\ resp.content.order = "asc"
    /\ resp.content.limit = 2
    /\ Cardinality({i \in DOMAIN messages : messages[i].thread_id = 1}) = MaxMessages
    /\ Len(resp.body) = 2
    /\ resp.content.after = OfThread(messages, 1)[2].id
    /\ resp.body = SubSeq(OfThread(messages, 1), 3, 4)

(***************************************************************************)
(* Properties of overlapping calls.                                        *)
(***************************************************************************)
\* C12: among the run-create calls of overlapping callers, taken in order of
\* arrival, exactly the first `failures` are failed by injection, the j-th
\* call that is not failed uses index j-1 of the scripted list, and no two
\* calls use the same index.
C12_CallOrder ==
    /\ \A i \in DOMAIN calls : calls[i].injected <=> i <= cfg.failures["runs"]
    /\ \A i \in DOMAIN calls :
          (calls[i].phase # "delayed" /\ ~calls[i].injected)
          => calls[i].index = Cardinality({j \in 1..(i - 1) : ~calls[j].injected})
    /\ \A i, j \in DOMAIN calls :
          (/\ i # j
           /\ calls[i].phase # "delayed" /\ ~calls[i].injected
           /\ calls[j].phase # "delayed" /\ ~calls[j].injected)
          => calls[i].index # calls[j].index

(***************************************************************************)
(* Properties of RunsMock._next_partial_run.                               *)
(***************************************************************************)
\* C10: _next_partial_run returns the entry at index call_count - failures
\* when that index is within 0 .. length - 1 of the method's list, and None
\* for every other index, also when failures exceeds call_count.
C10_SequenceLookup ==
    lookup.done =>
        LET list == DictGet(lookup.sequence, lookup.method, <<>>)
            ix   == lookup.count - lookup.failures
        IN  IF 0 <= ix /\ ix < Len(list)
            THEN lookup.result = <<list[ix + 1]>>
            ELSE lookup.result = <<>>

====
